---- MODULE Spec2Model ----
(***************************************************************************)
(* Microc backend: three-address code (TAC) -> basic blocks -> control     *)
(* flow graph -> liveness-decorated control flow graph, and TAC -> Tiny     *)
(* assembly (register allocation and instruction lowering).                *)
(*                                                                         *)
(* The pipeline is modelled stage by stage: every conversion of the        *)
(* program (a `From` implementation or a method) is one action that        *)
(* consumes the value of the previous stage and produces the next one.     *)
(***************************************************************************)
EXTENDS Integers, Sequences, FiniteSets, TLC

VARIABLES
    tac,          \* the function's TAC stream (Vec<ThreeAddressCode>)
    globals,      \* the symbols SymbolTable::global_symbols() returns
    pc,           \* the stage of the pipeline that has been reached
    panic,        \* why the pipeline aborted ("none" while it has not)
    bb_function,  \* BBFunction: [bbs, tac_label_to_bb_label_map]
    cfg,          \* ControlFlowGraph: [bb_map, bbs]
    lcfg,         \* LivenessDecoratedControlFlowGraph: [bb_map, bbs]
    runs,         \* completed calls of update_in_and_out_sets
    passes,       \* the passes the last call of update_in_and_out_sets made
    REGISTER_COUNTER,    \* asm/tiny.rs: the next register number
    INT_REGISTER_MAP,    \* HashMap<TempI, Register>: pairs <<temp, register>>
    FLOAT_REGISTER_MAP,  \* HashMap<TempF, Register>: pairs <<temp, register>>
    TEMP_COUNTER,        \* three_addr_code_ir: the next temporary number
    temps,        \* the temporaries created for the current function
    function,     \* the number of the function code is generated for
    tiny_pc,      \* the last code generation call that was made
    lowered,      \* conversions into a TinyCodeSequence made so far
    arg,          \* the TAC handed to the last conversion
    sequence,     \* the TinyCodeSequence the last conversion returned
    entry,        \* counter and register maps at the entry of the last conversion
    allocated,    \* the registers Register::new has returned, in order
    values,       \* the temporaries whose values the registers hold
    compilations  \* what each of two interleaved compilations has received

pipeline_vars == <<tac, globals, pc, bb_function, cfg, lcfg, runs, passes>>

tiny_vars ==
    <<REGISTER_COUNTER, INT_REGISTER_MAP, FLOAT_REGISTER_MAP, TEMP_COUNTER, temps,
      function, tiny_pc, lowered, arg, sequence, entry, allocated, values, compilations>>

vars == <<tac, globals, pc, panic, bb_function, cfg, lcfg, runs, passes, tiny_vars>>

(***************************************************************************)
(* Bounds of the model.                                                    *)
(***************************************************************************)
\* Longest enumerated TAC stream.
MaxLen == 4
\* Calls of update_in_and_out_sets on one decorated graph.
MaxRuns == 2
\* Passes of the outer loop of update_in_and_out_sets that are followed.
MaxPasses == 3
\* Temporaries 1..MaxTemp of the enumerated single instructions.
MaxTemp == 2
\* Identifiers (symbols) 1..MaxIdent of the enumerated single instructions.
MaxIdent == 2
\* Conversions into a TinyCodeSequence in one run of the code generator.
MaxLowered == 3
\* Functions code is generated for in one run.
MaxFunctions == 2
\* Calls of Register::new beyond the register limit.
MaxAborts == 3
\* Temporaries each of the interleaved compilations creates.
MaxWindow == 2

(***************************************************************************)
(* Operands.  k is the variant (Temp / Id / literal), ty the int or float  *)
(* flavour of the enum the operand lives in, n the temporary's number or   *)
(* the symbol of the identifier.  Literal values play no role in the       *)
(* analyses, so every literal is the operand Lit(ty).                      *)
(***************************************************************************)
TempI(n) == [k |-> "temp", ty |-> "I", n |-> n]

TempF(n) == [k |-> "temp", ty |-> "F", n |-> n]

IdentI(n) == [k |-> "id", ty |-> "I", n |-> n]

IdentF(n) == [k |-> "id", ty |-> "F", n |-> n]

IdentS(n) == [k |-> "id", ty |-> "S", n |-> n]

Lit(ty) == [k |-> "lit", ty |-> ty, n |-> 0]

\* The operand slot of an instruction that carries no such operand.
NoOperand == [k |-> "none", ty |-> "I", n |-> 0]

\* `if let BinaryExprOperandI::LValue(lvalue) = operand`
IsLValue(o) == o.k \in {"temp", "id"}

\* LValue::LValueI(lvalue)
LValueI(o) == [k |-> o.k, ty |-> "I", n |-> o.n]

\* LValue::LValueF(lvalue)
LValueF(o) == [k |-> o.k, ty |-> "F", n |-> o.n]

(***************************************************************************)
(* Instructions: one record shape for the whole enum.  Read*/Write*/Push*/ *)
(* Pop* carry their single operand in lhs; label is 0 when the instruction *)
(* has no label.                                                           *)
(***************************************************************************)
ArithI == {"AddI", "SubI", "MulI", "DivI"}

ArithF == {"AddF", "SubF", "MulF", "DivF"}

RelI == {"GtI", "LtI", "GteI", "LteI", "NeI", "EqI"}

RelF == {"GtF", "LtF", "GteF", "LteF", "NeF", "EqF"}

Arith(op, lhs, rhs, temp_result) ==
    [op |-> op, lhs |-> lhs, rhs |-> rhs, temp_result |-> temp_result, label |-> 0]

Store(op, lhs, rhs) ==
    [op |-> op, lhs |-> lhs, rhs |-> rhs, temp_result |-> NoOperand, label |-> 0]

Rel(op, lhs, rhs, label) ==
    [op |-> op, lhs |-> lhs, rhs |-> rhs, temp_result |-> NoOperand, label |-> label]

Unary(op, operand) ==
    [op |-> op, lhs |-> operand, rhs |-> NoOperand, temp_result |-> NoOperand, label |-> 0]

Nullary(op) ==
    [op |-> op, lhs |-> NoOperand, rhs |-> NoOperand, temp_result |-> NoOperand, label |-> 0]

Label(l) ==
    [op |-> "Label", lhs |-> NoOperand, rhs |-> NoOperand, temp_result |-> NoOperand, label |-> l]

Jump(l) ==
    [op |-> "Jump", lhs |-> NoOperand, rhs |-> NoOperand, temp_result |-> NoOperand, label |-> l]

(***************************************************************************)
(* Predicates of ThreeAddressCode used by the graph construction and the   *)
(* dataflow.  They are defined in three_address_code.rs and                *)
(* basic_block.rs; here they follow the design document (sections 4.1 and  *)
(* 4.2): an unconditional branch is a Jump, a target label is carried by   *)
(* the relational instructions and Jump, a block ends at a branch, a jump  *)
(* or a return.                                                            *)
(***************************************************************************)
is_unconditional_branch(t) == t.op = "Jump"

\* 0 stands for None.
get_label_if_branch_or_jump(t) ==
    IF t.op \in RelI \cup RelF \cup {"Jump"} THEN t.label ELSE 0

\* Mutant of is_bb_terminator: only an unconditional jump closes a block.
is_bb_terminator_jump_only(t) == t.op = "Jump"

\* An instruction that closes the block it is collected into.
is_bb_terminator(t) == t.op \in RelI \cup RelF \cup {"Jump", "Ret"}

(***************************************************************************)
(* Basic block builder (BBFunction from the function's code).  Blocks are  *)
(* [label, seq] in creation order, label = position - 1; the label map is  *)
(* a function from the TAC labels to the labels of the blocks they start.  *)
(* The builder is defined in basic_block.rs; the scan follows section 4.1  *)
(* of the design document and reproduces the blocks and the label map      *)
(* that the tests of cfg/mod.rs expect (TestIfElseCfg, TestLoopCfg).       *)
(***************************************************************************)
\* ImmutableBasicBlock from (BBLabel, Vec<ThreeAddressCode>)
ImmutableBasicBlock(label, seq) == [label |-> label, seq |-> seq]

\* An instruction that starts a block wherever it stands: a jump target.
is_bb_leader(t) == t.op = "Label"

\* Mutant of close_bb: a block is emitted at every boundary, also when
\* nothing was collected since the last one.
close_bb_allow_empty(blocks, cur) ==
    Append(blocks, ImmutableBasicBlock(Len(blocks), cur))

\* The block being collected is closed: it joins the blocks made so far
\* under the next block label, unless nothing was collected.
close_bb(blocks, cur) ==
    IF cur = <<>> THEN blocks
    ELSE Append(blocks, ImmutableBasicBlock(Len(blocks), cur))

\* Mutant of extend_bb: the Label that starts a block is not collected.
extend_bb_drop_leader(cur, t) ==
    IF is_bb_leader(t) THEN <<>> ELSE Append(cur, t)

\* The block an instruction is collected into: a new one for a leader.
extend_bb(cur, t) ==
    IF is_bb_leader(t) THEN <<t>> ELSE Append(cur, t)

RECURSIVE bb_scan(_, _, _, _, _)
bb_scan(code, i, cur, blocks, map) ==
    IF i > Len(code)
    THEN [bbs |-> close_bb(blocks, cur), tac_label_to_bb_label_map |-> map]
    ELSE LET t == code[i]
             blocks1 == IF is_bb_leader(t) THEN close_bb(blocks, cur) ELSE blocks
             cur1 == extend_bb(cur, t)
             map1 == IF is_bb_leader(t)
                     THEN (t.label :> Len(blocks1)) @@ map
                     ELSE map
         IN  IF is_bb_terminator(t)
             THEN bb_scan(code, i + 1, <<>>, close_bb(blocks1, cur1), map1)
             ELSE bb_scan(code, i + 1, cur1, blocks1, map1)

\* From<CodeObject> for BBFunction
BBFunctionFrom(code) == bb_scan(code, 1, <<>>, <<>>, <<>>)

(***************************************************************************)
(* Control flow graph constructor.  bb_map is a LinkedHashMap: a sequence  *)
(* of entries [key, val] in insertion order, val the Vec of successors.    *)
(***************************************************************************)
HasKey(bb_map, k) == \E i \in 1..Len(bb_map) : bb_map[i].key = k

\* bb_map.get(k), for a key HasKey finds; <<>> otherwise
Get(bb_map, k) ==
    IF HasKey(bb_map, k)
    THEN bb_map[CHOOSE i \in 1..Len(bb_map) : bb_map[i].key = k].val
    ELSE <<>>

\* Mutant of create_edge: the entry of a new key is put in front of the
\* entries made so far.
create_edge_new_key_first(bb_map, from, to) ==
    IF HasKey(bb_map, from)
    THEN [i \in 1..Len(bb_map) |->
            IF bb_map[i].key = from
            THEN [key |-> from, val |-> Append(bb_map[i].val, to)]
            ELSE bb_map[i]]
    ELSE <<[key |-> from, val |-> <<to>>]>> \o bb_map

\* bb_map.entry(from).or_insert(vec![]).push(to)
create_edge(bb_map, from, to) ==
    IF HasKey(bb_map, from)
    THEN [i \in 1..Len(bb_map) |->
            IF bb_map[i].key = from
            THEN [key |-> from, val |-> Append(bb_map[i].val, to)]
            ELSE bb_map[i]]
    ELSE Append(bb_map, [key |-> from, val |-> <<to>>])

\* Mutant of fall_through_edge: prev_bb_has_unconditional_jump is ignored.
fall_through_edge_always(bb_map, prev_bb_label, prev_bb_has_unconditional_jump, bb_label) ==
    IF prev_bb_label # <<>>
    THEN create_edge(bb_map, prev_bb_label[1], bb_label)
    ELSE bb_map

\* Mutant of fall_through_edge: no fall-through edge is made.
fall_through_edge_never(bb_map, prev_bb_label, prev_bb_has_unconditional_jump, bb_label) ==
    bb_map

\* Mutant of fall_through_edge: the edge goes to the label after the
\* current block's.
fall_through_edge_off_by_one(bb_map, prev_bb_label, prev_bb_has_unconditional_jump, bb_label) ==
    IF prev_bb_label # <<>> /\ ~prev_bb_has_unconditional_jump
    THEN create_edge(bb_map, prev_bb_label[1], bb_label + 1)
    ELSE bb_map

\* Mutant of fall_through_edge: the fall-through successor is put in
\* front of the successors the block already has.
fall_through_edge_prepend(bb_map, prev_bb_label, prev_bb_has_unconditional_jump, bb_label) ==
    IF prev_bb_label # <<>> /\ ~prev_bb_has_unconditional_jump
    THEN IF HasKey(bb_map, prev_bb_label[1])
         THEN [i \in 1..Len(bb_map) |->
                IF bb_map[i].key = prev_bb_label[1]
                THEN [key |-> bb_map[i].key, val |-> <<bb_label>> \o bb_map[i].val]
                ELSE bb_map[i]]
         ELSE create_edge(bb_map, prev_bb_label[1], bb_label)
    ELSE bb_map

\* The fall-through edge of one loop pass: prev_bb_label is <<>> (None) or
\* <<label>> (Some(label)).
fall_through_edge(bb_map, prev_bb_label, prev_bb_has_unconditional_jump, bb_label) ==
    IF prev_bb_label # <<>> /\ ~prev_bb_has_unconditional_jump
    THEN create_edge(bb_map, prev_bb_label[1], bb_label)
    ELSE bb_map

\* Mutant of index_label_map: a label that is not a key yields the entry
\* block instead of a panic.
index_label_map_or_entry(map, tac_label) ==
    IF tac_label \in DOMAIN map THEN <<map[tac_label]>> ELSE <<0>>

\* tac_label_to_bb_label_map[&tac_label]: <<the block label>>, or <<>> where
\* the index panics because the label is not a key.
index_label_map(map, tac_label) ==
    IF tac_label \in DOMAIN map THEN <<map[tac_label]>> ELSE <<>>

\* Mutant of target_edge: the edge is keyed by the block label on both
\* ends instead of looking the target up in the label map.
target_edge_to_self(bb_map, bb_label, tac_label, map) ==
    IF tac_label # 0
    THEN create_edge(bb_map, bb_label, bb_label)
    ELSE bb_map

\* The edge to the explicit target of the block's last instruction;
\* tac_label is get_label_if_branch_or_jump of it and is in the map.
target_edge(bb_map, bb_label, tac_label, map) ==
    IF tac_label # 0
    THEN create_edge(bb_map, bb_label, index_label_map(map, tac_label)[1])
    ELSE bb_map

\* The `for (bb_label, bb) in bbs.iter()` loop from its i-th pass on.
RECURSIVE cfg_loop(_, _, _, _, _, _)
cfg_loop(bbs, map, i, bb_map, prev_bb_label, prev_bb_has_unconditional_jump) ==
    IF i > Len(bbs)
    THEN [panic |-> "none", bb_map |-> bb_map]
    ELSE LET bb == bbs[i]
         IN  IF bb.seq = <<>>
             THEN [panic |-> "empty_block", bb_map |-> bb_map]
             ELSE LET last_tac == bb.seq[Len(bb.seq)]
                      m1 == fall_through_edge(bb_map, prev_bb_label,
                                              prev_bb_has_unconditional_jump, bb.label)
                      tac_label == get_label_if_branch_or_jump(last_tac)
                  IN  IF tac_label # 0 /\ index_label_map(map, tac_label) = <<>>
                      THEN [panic |-> "missing_label", bb_map |-> m1]
                      ELSE cfg_loop(bbs, map, i + 1,
                                    target_edge(m1, bb.label, tac_label, map),
                                    <<bb.label>>,
                                    is_unconditional_branch(last_tac))

\* From<BBFunction> for ControlFlowGraph
ControlFlowGraphFrom(bbf) ==
    LET r == cfg_loop(bbf.bbs, bbf.tac_label_to_bb_label_map, 1, <<>>, <<>>, FALSE)
    IN  [panic |-> r.panic, bb_map |-> r.bb_map, bbs |-> bbf.bbs]

(***************************************************************************)
(* Liveness decoration: GEN, KILL and the initial IN and OUT of one        *)
(* instruction, from its shape and the global symbols.                     *)
(***************************************************************************)
\* Mutant of GlobalLValues: the float arm of the filter_map is missing.
GlobalLValues_ints_only(symbols) ==
    {IdentI(s.n) : s \in {x \in symbols : x.ty = "I"}}

\* The filter_map over SymbolTable::global_symbols(): int and float symbols
\* become identifiers, string symbols are dropped.
GlobalLValues(symbols) ==
    {IdentI(s.n) : s \in {x \in symbols : x.ty = "I"}}
        \cup {IdentF(s.n) : s \in {x \in symbols : x.ty = "F"}}

\* Mutant of binary_source_operands: the `rhs` test is missing.
binary_source_operands_lhs_only(t) == {t.lhs}

\* The operands the binary instructions (arithmetic and relational) look
\* at for GEN: the `if let ... = lhs` and the `if let ... = rhs`.
binary_source_operands(t) == {t.lhs, t.rhs}

\* Mutant of store_source_operands: the source is left out of GEN when the
\* instruction itself redefines it.
store_source_operands_unless_killed(t) == {x \in {t.rhs} : IsLValue(x)} \ {t.lhs}

\* The operand a Store looks at for GEN: the `if let ... = rhs`.
store_source_operands(t) == {x \in {t.rhs} : IsLValue(x)}

\* Mutant of pushed_operands: the `if let` test is missing.
pushed_operands_with_literal(t) == {t.lhs}

\* The operand a Push looks at for GEN: the `if let ... = op`.
pushed_operands(t) == {x \in {t.lhs} : IsLValue(x)}

gen_set(t, symbols) ==
    CASE t.op \in ArithI \cup RelI ->
            {LValueI(o) : o \in {x \in binary_source_operands(t) : IsLValue(x)}}
      [] t.op \in ArithF \cup RelF ->
            {LValueF(o) : o \in {x \in binary_source_operands(t) : IsLValue(x)}}
      [] t.op = "StoreI" -> {LValueI(o) : o \in store_source_operands(t)}
      [] t.op = "StoreF" -> {LValueF(o) : o \in store_source_operands(t)}
      [] t.op = "WriteI" -> {IdentI(t.lhs.n)}
      [] t.op = "WriteF" -> {IdentF(t.lhs.n)}
      [] t.op = "PushI" -> {LValueI(o) : o \in pushed_operands(t)}
      [] t.op = "PushF" -> {LValueF(o) : o \in pushed_operands(t)}
      [] t.op = "Jsr" -> GlobalLValues(symbols)
      [] OTHER -> {}

kill_set(t) ==
    CASE t.op \in ArithI -> {TempI(t.temp_result.n)}
      [] t.op \in ArithF -> {TempF(t.temp_result.n)}
      [] t.op = "StoreI" -> {LValueI(t.lhs)}
      [] t.op = "StoreF" -> {LValueF(t.lhs)}
      [] t.op = "ReadI" -> {IdentI(t.lhs.n)}
      [] t.op = "ReadF" -> {IdentF(t.lhs.n)}
      [] t.op = "PopI" -> {LValueI(t.lhs)}
      [] t.op = "PopF" -> {LValueF(t.lhs)}
      [] OTHER -> {}

\* Mutant of initial_out_set: Ret starts from the empty set like the rest.
initial_out_set_empty(t, symbols) == {}

\* The out_set the decoration starts from: the globals for Ret.
initial_out_set(t, symbols) ==
    IF t.op = "Ret" THEN GlobalLValues(symbols) ELSE {}

\* From<ThreeAddressCode> for LivenessDecoratedThreeAddressCode
LivenessDecoratedThreeAddressCode(t, symbols) ==
    [tac |-> t,
     gen_set |-> gen_set(t, symbols),
     kill_set |-> kill_set(t),
     in_set |-> {},
     out_set |-> initial_out_set(t, symbols)]

\* From<ImmutableBasicBlock> for LivenessDecoratedImmutableBasicBlock
LivenessDecoratedImmutableBasicBlock(bb, symbols) ==
    [label |-> bb.label,
     seq |-> [i \in 1..Len(bb.seq) |->
                LivenessDecoratedThreeAddressCode(bb.seq[i], symbols)]]

\* From<ControlFlowGraph> for LivenessDecoratedControlFlowGraph
LivenessDecoratedControlFlowGraph(g, symbols) ==
    [bb_map |-> g.bb_map,
     bbs |-> [i \in 1..Len(g.bbs) |->
                LivenessDecoratedImmutableBasicBlock(g.bbs[i], symbols)]]

(***************************************************************************)
(* update_in_and_out_sets.                                                 *)
(***************************************************************************)
\* basic_block_for_label: the block with that label, as <<>> or <<block>>
basic_block_for_label(g, bb_label) ==
    IF \E i \in 1..Len(g.bbs) : g.bbs[i].label = bb_label
    THEN <<g.bbs[CHOOSE i \in 1..Len(g.bbs) : g.bbs[i].label = bb_label]>>
    ELSE <<>>

\* neighbors_of_bb, with the empty list for None
neighbors_of_bb(g, bb_label) == Get(g.bb_map, bb_label)

\* LivenessDecoratedImmutableBasicBlock::in_set: the in_set of first()
bb_in_set(bb) == bb.seq[1].in_set

\* LivenessDecoratedImmutableBasicBlock::out_set: the out_set of last()
bb_out_set(bb) == bb.seq[Len(bb.seq)].out_set

RECURSIVE flat_worklist(_, _)
flat_worklist(bbs, i) ==
    IF i > Len(bbs) THEN <<>>
    ELSE [j \in 1..Len(bbs[i].seq) |-> [bb_label |-> bbs[i].label, pos |-> j, bb |-> i]]
            \o flat_worklist(bbs, i + 1)

Reverse(s) == [i \in 1..Len(s) |-> s[Len(s) + 1 - i]]

\* The worklist of one pass: every instruction of the graph, last first.
worklist(g) == Reverse(flat_worklist(g.bbs, 1))

\* The local `out_set` one step of the `for` loop computes for node t of
\* block bb_label.
local_out_set(g, bb_label, t, successor_tac_node_in_set) ==
    (IF ~is_unconditional_branch(t.tac) THEN successor_tac_node_in_set ELSE {})
        \cup (IF is_bb_terminator(t.tac)
              THEN UNION {bb_in_set(basic_block_for_label(g, nb)[1]) :
                            nb \in {x \in {neighbors_of_bb(g, bb_label)[j] :
                                            j \in 1..Len(neighbors_of_bb(g, bb_label))} :
                                        basic_block_for_label(g, x) # <<>>}}
              ELSE {})

\* One pass of the outer `loop` from its i-th worklist item on.  The local
\* out_set is computed and dropped at the end of the step, no node is
\* written, successor_tac_node_in_set is reset to the empty set and
\* `updated` is never set.
\* Mutant of update_pass: every pass reports a change.
update_pass_always_updated(g, wl, i, successor_tac_node_in_set, updated) ==
    [g |-> g, updated |-> TRUE]

RECURSIVE update_pass(_, _, _, _, _)
update_pass(g, wl, i, successor_tac_node_in_set, updated) ==
    IF i > Len(wl)
    THEN [g |-> g, updated |-> updated]
    ELSE LET t == g.bbs[wl[i].bb].seq[wl[i].pos]
             out_set == local_out_set(g, wl[i].bb_label, t, successor_tac_node_in_set)
         IN  update_pass(g, wl, i + 1, {}, updated)

\* Mutant of update_in_and_out_sets: one sweep that writes IN and OUT from
\* the values of before the sweep and does not repeat until nothing changes.
update_in_and_out_sets_one_sweep(g) ==
    [bb_map |-> g.bb_map,
     bbs |-> [b \in 1..Len(g.bbs) |->
                [label |-> g.bbs[b].label,
                 seq |-> [j \in 1..Len(g.bbs[b].seq) |->
                            LET t == g.bbs[b].seq[j]
                            IN  [t EXCEPT
                                   !.in_set = (t.out_set \ t.kill_set) \cup t.gen_set,
                                   !.out_set = IF j < Len(g.bbs[b].seq)
                                               THEN t.out_set \cup g.bbs[b].seq[j + 1].in_set
                                               ELSE t.out_set]]]]]

\* The outer `loop`: passes until one leaves `updated` false.  `left` tells
\* whether the `break` was reached within MaxPasses passes.
RECURSIVE update_loop(_, _)
update_loop(g, n) ==
    LET r == update_pass(g, worklist(g), 1, {}, FALSE)
    IN  IF ~r.updated THEN [g |-> r.g, passes |-> n, left |-> TRUE]
        ELSE IF n >= MaxPasses THEN [g |-> r.g, passes |-> n, left |-> FALSE]
        ELSE update_loop(r.g, n + 1)

update_in_and_out_sets(g) == update_loop(g, 1).g

(***************************************************************************)
(* Code generation (asm/tiny.rs).  The statics REGISTER_COUNTER,           *)
(* INT_REGISTER_MAP and FLOAT_REGISTER_MAP are threaded through the        *)
(* operators as st = [counter, int_map, float_map, panic]; panic names the *)
(* panic that ended the call ("none" while there is none).                 *)
(***************************************************************************)
\* The `200` of the assert! in Register::new.
RegisterLimit == 200

\* Opmr::Reg(register); Opmr::Id and the literals are the TAC operands.
Reg(r) == [k |-> "reg", ty |-> "R", n |-> r]

\* One TinyCode: op is the variant, src and dst its operands in the order
\* of the variant's fields, label the label of the jumps and of Label.
TinyCode(op, src, dst, label) == [op |-> op, src |-> src, dst |-> dst, label |-> label]

\* HashMap::contains_key, get (of a key that is there) and insert.
contains_key(map, key) == \E p \in map : p[1] = key

get(map, key) == (CHOOSE p \in map : p[1] = key)[2]

insert(map, key, value) == {p \in map : p[1] # key} \cup {<<key, value>>}

\* INT_REGISTER_MAP for the int operands, FLOAT_REGISTER_MAP for the float.
register_map(st, ty) == IF ty = "I" THEN st.int_map ELSE st.float_map

with_register_map(st, ty, map) ==
    IF ty = "I" THEN [st EXCEPT !.int_map = map] ELSE [st EXCEPT !.float_map = map]

\* RValueI::is_mem_ref, RValueF::is_mem_ref
is_mem_ref(operand) == operand.k = "id"

\* Mutant of Register_new: the assert! reads `result <= 200`.
Register_new_limit_off_by_one(st) ==
    [st |-> [st EXCEPT !.counter = st.counter + 1,
                       !.panic = IF st.counter <= RegisterLimit THEN "none" ELSE "registers"],
     register |-> st.counter]

\* Register::new: fetch_add, then the assert!.
Register_new(st) ==
    [st |-> [st EXCEPT !.counter = st.counter + 1,
                       !.panic = IF st.counter < RegisterLimit THEN "none" ELSE "registers"],
     register |-> st.counter]

\* TinyCode::move_binary_op_tac_operand_to_register: `unwrap` of an unbound
\* temporary panics before a register is taken.
move_binary_op_tac_operand_to_register(st, operand) ==
    IF operand.k = "temp" /\ ~contains_key(register_map(st, operand.ty), operand.n)
    THEN [st |-> [st EXCEPT !.panic = "unwrap"], register |-> 0, move |-> <<>>]
    ELSE LET new_reg == Register_new(st)
             source == IF operand.k = "temp"
                       THEN Reg(get(register_map(st, operand.ty), operand.n))
                       ELSE operand
         IN  [st |-> new_reg.st,
              register |-> new_reg.register,
              move |-> <<TinyCode("Move", source, Reg(new_reg.register), 0)>>]

\* Mutant of binary_op_tac_operand_to_register_or_move: the two arms for
\* the temporaries are missing.
binary_op_tac_operand_to_register_or_move_always_moves(st, operand) ==
    move_binary_op_tac_operand_to_register(st, operand)

\* TinyCode::binary_op_tac_operand_to_register_or_move; move is the empty
\* sequence for None.
binary_op_tac_operand_to_register_or_move(st, operand) ==
    IF operand.k = "temp"
    THEN IF contains_key(register_map(st, operand.ty), operand.n)
         THEN [st |-> st,
               register |-> get(register_map(st, operand.ty), operand.n),
               move |-> <<>>]
         ELSE [st |-> [st EXCEPT !.panic = "unwrap"], register |-> 0, move |-> <<>>]
    ELSE move_binary_op_tac_operand_to_register(st, operand)

\* TinyCode::binary_op_tac_operand_to_opmrl
binary_op_tac_operand_to_opmrl(st, operand) ==
    IF operand.k = "temp"
    THEN IF contains_key(register_map(st, operand.ty), operand.n)
         THEN [st |-> st, opmrl |-> Reg(get(register_map(st, operand.ty), operand.n))]
         ELSE [st |-> [st EXCEPT !.panic = "unwrap"], opmrl |-> operand]
    ELSE [st |-> st, opmrl |-> operand]

\* The arms of AddI .. DivI (ty = "I") and AddF .. DivF (ty = "F").
arith_lowering(st, t, ty) ==
    LET operand1 == binary_op_tac_operand_to_register_or_move(st, t.lhs)
        operand2 == binary_op_tac_operand_to_opmrl(operand1.st, t.rhs)
    IN  IF operand1.st.panic # "none" THEN [st |-> operand1.st, sequence |-> <<>>]
        ELSE IF operand2.st.panic # "none" THEN [st |-> operand2.st, sequence |-> <<>>]
        ELSE [st |-> with_register_map(operand2.st, ty,
                        insert(register_map(operand2.st, ty), t.temp_result.n,
                               operand1.register)),
              sequence |-> operand1.move
                            \o <<TinyCode(t.op, operand2.opmrl, Reg(operand1.register), 0)>>]

\* Mutant of store_moves_directly: the test of the two memory references
\* is missing.
store_moves_directly_always(is_lhs_mem_ref, rhs) == TRUE

\* The `if !is_lhs_mem_ref || !rhs.is_mem_ref()` of the store arms.
store_moves_directly(is_lhs_mem_ref, rhs) == ~is_lhs_mem_ref \/ ~is_mem_ref(rhs)

\* The arms of StoreI (ty = "I") and StoreF (ty = "F").
store_lowering(st, t, ty) ==
    LET map == register_map(st, ty)
        is_lhs_mem_ref == t.lhs.k = "id"
        bound == t.lhs.k = "temp" /\ contains_key(map, t.lhs.n)
        new_reg == Register_new(st)
        maybe_new_register == IF bound THEN get(map, t.lhs.n) ELSE new_reg.register
        st1 == IF is_lhs_mem_ref \/ bound THEN st
               ELSE IF new_reg.st.panic # "none" THEN new_reg.st
               ELSE with_register_map(new_reg.st, ty, insert(map, t.lhs.n, new_reg.register))
        operand1 == IF is_lhs_mem_ref THEN t.lhs ELSE Reg(maybe_new_register)
        direct == binary_op_tac_operand_to_opmrl(st1, t.rhs)
        via == move_binary_op_tac_operand_to_register(st1, t.rhs)
    IN  IF st1.panic # "none" THEN [st |-> st1, sequence |-> <<>>]
        ELSE IF store_moves_directly(is_lhs_mem_ref, t.rhs)
        THEN IF direct.st.panic # "none" THEN [st |-> direct.st, sequence |-> <<>>]
             ELSE [st |-> direct.st,
                   sequence |-> <<TinyCode("Move", direct.opmrl, operand1, 0)>>]
        ELSE IF via.st.panic # "none" THEN [st |-> via.st, sequence |-> <<>>]
             ELSE [st |-> via.st,
                   sequence |-> via.move
                                 \o <<TinyCode("Move", Reg(via.register), operand1, 0)>>]

\* Mutant of jump_code: the arms of Gte and Lte jump as Gt and Lt do.
jump_code_strict(op) ==
    CASE op \in {"GtI", "GtF", "GteI", "GteF"} -> "Jgt"
      [] op \in {"LtI", "LtF", "LteI", "LteF"} -> "Jlt"
      [] op \in {"NeI", "NeF"} -> "Jne"
      [] op \in {"EqI", "EqF"} -> "Jeq"

\* The conditional jump of each relational arm.
jump_code(op) ==
    CASE op \in {"GtI", "GtF"} -> "Jgt"
      [] op \in {"LtI", "LtF"} -> "Jlt"
      [] op \in {"GteI", "GteF"} -> "Jge"
      [] op \in {"LteI", "LteF"} -> "Jle"
      [] op \in {"NeI", "NeF"} -> "Jne"
      [] op \in {"EqI", "EqF"} -> "Jeq"

\* The arms of GtI .. EqI (cmp = "CmpI") and GtF .. EqF (cmp = "CmpF").
rel_lowering(st, t, cmp) ==
    LET operand1 == binary_op_tac_operand_to_opmrl(st, t.lhs)
        operand2 == binary_op_tac_operand_to_register_or_move(operand1.st, t.rhs)
    IN  IF operand1.st.panic # "none" THEN [st |-> operand1.st, sequence |-> <<>>]
        ELSE IF operand2.st.panic # "none" THEN [st |-> operand2.st, sequence |-> <<>>]
        ELSE [st |-> operand2.st,
              sequence |-> operand2.move
                            \o <<TinyCode(cmp, operand1.opmrl, Reg(operand2.register), 0),
                                 TinyCode(jump_code(t.op), NoOperand, NoOperand, t.label)>>]

\* Mutant of io_lowering: a register is taken for the identifier.
io_lowering_takes_register(st, t) ==
    [st |-> Register_new(st).st,
     sequence |-> <<TinyCode(t.op, NoOperand, t.lhs, 0)>>]

\* The arms of ReadI, WriteI, ReadF, WriteF and WriteS: the variant of the
\* same name with the identifier.
io_lowering(st, t) ==
    [st |-> st, sequence |-> <<TinyCode(t.op, NoOperand, t.lhs, 0)>>]

\* From<ThreeAddressCode> for TinyCodeSequence: the arms of the match.
TinyCodeSequenceFrom(st, t) ==
    CASE t.op \in ArithI -> arith_lowering(st, t, "I")
      [] t.op \in ArithF -> arith_lowering(st, t, "F")
      [] t.op = "StoreI" -> store_lowering(st, t, "I")
      [] t.op = "StoreF" -> store_lowering(st, t, "F")
      [] t.op \in RelI -> rel_lowering(st, t, "CmpI")
      [] t.op \in RelF -> rel_lowering(st, t, "CmpF")
      [] t.op \in {"ReadI", "ReadF", "WriteI", "WriteF", "WriteS"} -> io_lowering(st, t)
      [] t.op = "Label" ->
            [st |-> st, sequence |-> <<TinyCode("Label", NoOperand, NoOperand, t.label)>>]
      [] t.op = "Jump" ->
            [st |-> st, sequence |-> <<TinyCode("Jmp", NoOperand, NoOperand, t.label)>>]

\* From<Vec<ThreeAddressCode>> for TinyCodeSequence: the body that lowers
\* the instructions is commented out, `sequence: vec![]` is all that is left.
TinyCodeSequenceFromVec(st, three_adr_code_seq) == [st |-> st, sequence |-> <<>>]

(***************************************************************************)
(* Inputs.                                                                 *)
(***************************************************************************)
\* The instructions the enumerated streams are made of.
TacUniverse ==
    {Label(1), Label(2), Jump(1), Jump(2),
     Rel("EqI", IdentI(1), TempI(1), 2),
     Store("StoreI", IdentI(1), Lit("I")),
     Unary("WriteI", IdentI(1)),
     Nullary("Ret")}

\* Sequences over S of length n.
SeqsOfLen(S, n) == [1..n -> S]

\* A label marks one place: no Label instruction occurs twice in a stream.
LabelsUnique(code) ==
    \A i, j \in 1..Len(code) :
        (code[i].op = "Label" /\ code[j].op = "Label" /\ code[i].label = code[j].label)
            => i = j

\* The stream of test::bb_function_to_cfg (IF / ELSE / FI); symbols
\* a = 1, b = 2, p = 3, i = 4, labels 11 and 12.
IfElseProgram ==
    <<Nullary("FunctionLabel"), Nullary("Link"),
      Store("StoreI", TempI(1), Lit("I")), Store("StoreI", IdentI(1), TempI(1)),
      Store("StoreI", TempI(2), Lit("I")), Store("StoreI", IdentI(2), TempI(2)),
      Arith("MulI", IdentI(1), IdentI(2), TempI(3)),
      Store("StoreI", IdentI(3), TempI(3)),
      Store("StoreI", TempI(4), Lit("I")),
      Rel("LteI", IdentI(3), TempI(4), 11),
      Store("StoreI", TempI(5), Lit("I")), Store("StoreI", IdentI(4), TempI(5)),
      Jump(12),
      Label(11),
      Store("StoreI", TempI(6), Lit("I")), Store("StoreI", IdentI(4), TempI(6)),
      Jump(12),
      Label(12),
      Unary("WriteI", IdentI(4))>>

\* The stream of test::bb_function_with_loops_to_cfg (FOR / ROF); symbols
\* i = 4, j = 5, newapprox = 6, approx = 7, num = 8, labels 11, 12, 13.
LoopProgram ==
    <<Nullary("FunctionLabel"), Nullary("Link"),
      Store("StoreF", TempF(1), Lit("F")), Store("StoreF", IdentF(8), TempF(1)),
      Store("StoreI", TempI(2), Lit("I")), Store("StoreI", IdentI(5), TempI(2)),
      Store("StoreF", IdentF(7), IdentF(8)),
      Store("StoreI", TempI(3), Lit("I")), Store("StoreI", IdentI(4), TempI(3)),
      Label(11),
      Store("StoreI", TempI(4), Lit("I")),
      Rel("EqI", IdentI(4), TempI(4), 12),
      Store("StoreF", TempF(7), Lit("F")),
      Arith("DivF", IdentF(8), IdentF(7), TempF(8)),
      Arith("AddF", IdentF(7), TempF(8), TempF(9)),
      Arith("MulF", TempF(7), TempF(9), TempF(10)),
      Store("StoreF", IdentF(6), TempF(10)),
      Store("StoreF", IdentF(7), IdentF(6)),
      Label(13),
      Store("StoreI", TempI(5), Lit("I")),
      Arith("SubI", IdentI(4), TempI(5), TempI(6)),
      Store("StoreI", IdentI(4), TempI(6)),
      Jump(11),
      Label(12),
      Unary("WriteF", IdentF(7))>>

\* The streams of the specification Spec.
Streams ==
    {code \in UNION {SeqsOfLen(TacUniverse, n) : n \in 0..MaxLen} : LabelsUnique(code)}
        \cup {IfElseProgram, LoopProgram}

\* The global symbols of the programs above (a string symbol among them).
ProgramGlobals ==
    {[ty |-> "I", n |-> 1], [ty |-> "F", n |-> 7], [ty |-> "S", n |-> 9]}

(***************************************************************************)
(* The pipeline.                                                           *)
(***************************************************************************)
NoBBFunction == [bbs |-> <<>>, tac_label_to_bb_label_map |-> <<>>]

NoGraph == [bb_map |-> <<>>, bbs |-> <<>>]

\* update_in_and_out_sets has not been called.
NoPasses == [count |-> 0, left |-> TRUE]

\* No register holds the value of a temporary of the current function, no
\* temporary has been defined, no instruction has read one.
NoValues == [holds |-> {}, defined |-> {}, well_formed |-> TRUE, stale |-> {}]

\* A compilation that has not started: no temporary received, no
\* instruction lowered, no register received from Register::new, no
\* temporary bound.
NoCompilation ==
    [phase |-> "idle", temps |-> <<>>, lowered |-> 0, registers |-> <<>>, bindings |-> {}]

\* The statics of asm/tiny.rs and three_addr_code_ir as they are initialised;
\* no conversion has been made.
TinyInit ==
    /\ REGISTER_COUNTER = 0
    /\ INT_REGISTER_MAP = {}
    /\ FLOAT_REGISTER_MAP = {}
    /\ TEMP_COUNTER = 1
    /\ temps = {}
    /\ function = 1
    /\ tiny_pc = "function"
    /\ lowered = 0
    /\ arg = <<>>
    /\ sequence = <<>>
    /\ entry = [counter |-> 0, int_map |-> {}, float_map |-> {}]
    /\ allocated = <<>>
    /\ values = NoValues
    /\ compilations = [c \in 1..2 |-> NoCompilation]

Init ==
    /\ tac \in Streams
    /\ globals \in {{}, ProgramGlobals}
    /\ pc = "tac"
    /\ panic = "none"
    /\ bb_function = NoBBFunction
    /\ cfg = NoGraph
    /\ lcfg = NoGraph
    /\ runs = 0
    /\ passes = NoPasses
    /\ TinyInit

\* Into::<BBFunction>::into(code_object)
BuildBasicBlocks ==
    /\ pc = "tac"
    /\ bb_function' = BBFunctionFrom(tac)
    /\ pc' = "bb_function"
    /\ UNCHANGED <<tac, globals, panic, cfg, lcfg, runs, passes>>
    /\ UNCHANGED tiny_vars

\* Into::<ControlFlowGraph>::into(bb_func), returning
BuildControlFlowGraph ==
    /\ pc = "bb_function"
    /\ LET r == ControlFlowGraphFrom(bb_function)
       IN  /\ r.panic = "none"
           /\ cfg' = [bb_map |-> r.bb_map, bbs |-> r.bbs]
    /\ pc' = "cfg"
    /\ UNCHANGED <<tac, globals, panic, bb_function, lcfg, runs, passes>>
    /\ UNCHANGED tiny_vars

\* Into::<ControlFlowGraph>::into(bb_func), panicking: no graph is made
BuildControlFlowGraphPanics ==
    /\ pc = "bb_function"
    /\ LET r == ControlFlowGraphFrom(bb_function)
       IN  /\ r.panic # "none"
           /\ panic' = r.panic
    /\ pc' = "abort"
    /\ UNCHANGED <<tac, globals, bb_function, cfg, lcfg, runs, passes>>
    /\ UNCHANGED tiny_vars

\* Into::<LivenessDecoratedControlFlowGraph>::into(cfg)
Decorate ==
    /\ pc = "cfg"
    /\ lcfg' = LivenessDecoratedControlFlowGraph(cfg, globals)
    /\ pc' = "decorated"
    /\ UNCHANGED <<tac, globals, panic, bb_function, cfg, runs, passes>>
    /\ UNCHANGED tiny_vars

\* lcfg.update_in_and_out_sets()
UpdateInAndOutSets ==
    /\ pc \in {"decorated", "updated"}
    /\ runs < MaxRuns
    /\ lcfg' = update_in_and_out_sets(lcfg)
    /\ passes' = [count |-> update_loop(lcfg, 1).passes, left |-> update_loop(lcfg, 1).left]
    /\ runs' = runs + 1
    /\ pc' = "updated"
    /\ UNCHANGED <<tac, globals, panic, bb_function, cfg>>
    /\ UNCHANGED tiny_vars

Next ==
    \/ BuildBasicBlocks
    \/ BuildControlFlowGraph
    \/ BuildControlFlowGraphPanics
    \/ Decorate
    \/ UpdateInAndOutSets

Spec == Init /\ [][Next]_vars

(***************************************************************************)
(* Second specification: the same pipeline run on every single instruction *)
(* shape (behind a Label that the branches target) and on every content of *)
(* the global symbol table.                                                *)
(***************************************************************************)
OperandsI ==
    {TempI(n) : n \in 1..MaxTemp} \cup {IdentI(n) : n \in 1..MaxIdent} \cup {Lit("I")}

OperandsF ==
    {TempF(n) : n \in 1..MaxTemp} \cup {IdentF(n) : n \in 1..MaxIdent} \cup {Lit("F")}

AllInstructions ==
    {Arith(op, l, r, TempI(n)) : op \in ArithI, l \in OperandsI, r \in OperandsI, n \in 1..MaxTemp}
    \cup {Arith(op, l, r, TempF(n)) : op \in ArithF, l \in OperandsF, r \in OperandsF, n \in 1..MaxTemp}
    \cup {Rel(op, l, r, 1) : op \in RelI, l \in OperandsI, r \in OperandsI}
    \cup {Rel(op, l, r, 1) : op \in RelF, l \in OperandsF, r \in OperandsF}
    \cup {Store("StoreI", l, r) : l \in {x \in OperandsI : IsLValue(x)}, r \in OperandsI}
    \cup {Store("StoreF", l, r) : l \in {x \in OperandsF : IsLValue(x)}, r \in OperandsF}
    \cup {Unary(op, IdentI(n)) : op \in {"ReadI", "WriteI"}, n \in 1..MaxIdent}
    \cup {Unary(op, IdentF(n)) : op \in {"ReadF", "WriteF"}, n \in 1..MaxIdent}
    \cup {Unary("PushI", o) : o \in OperandsI}
    \cup {Unary("PushF", o) : o \in OperandsF}
    \cup {Unary("PopI", o) : o \in {x \in OperandsI : IsLValue(x)}}
    \cup {Unary("PopF", o) : o \in {x \in OperandsF : IsLValue(x)}}
    \cup {Nullary(op) : op \in {"Jsr", "Ret", "Link", "Unlink", "FunctionLabel", "WriteS"}}
    \cup {Jump(1), Jump(2)}

\* The symbols a global symbol table is made of: an int, a float, a string.
GlobalSymbols ==
    {[ty |-> "I", n |-> 1], [ty |-> "F", n |-> 2], [ty |-> "S", n |-> 3]}

InitGK ==
    /\ tac \in {<<Label(1), t>> : t \in AllInstructions}
    /\ globals \in SUBSET GlobalSymbols
    /\ pc = "tac"
    /\ panic = "none"
    /\ bb_function = NoBBFunction
    /\ cfg = NoGraph
    /\ lcfg = NoGraph
    /\ runs = 0
    /\ passes = NoPasses
    /\ TinyInit

SpecGK == InitGK /\ [][Next]_vars

(***************************************************************************)
(* Third specification: the code generator.  The temporaries of a function *)
(* are created, its instructions are converted one at a time               *)
(* (From<ThreeAddressCode>) or as a stream (From<Vec<ThreeAddressCode>>),   *)
(* and code generation moves on to the next function.                      *)
(***************************************************************************)
\* The instructions handed to the code generator.
TinyUniverse ==
    {Arith("AddI", IdentI(1), IdentI(2), TempI(1)),
     Arith("AddI", TempI(1), IdentI(1), TempI(2)),
     Arith("SubI", Lit("I"), TempI(1), TempI(2)),
     Arith("MulI", TempI(2), Lit("I"), TempI(1)),
     Arith("DivF", TempF(1), Lit("F"), TempF(1)),
     Arith("MulF", IdentF(1), TempF(1), TempF(1)),
     Rel("GtI", TempI(1), IdentI(2), 2),
     Rel("NeF", Lit("F"), Lit("F"), 2),
     Rel("EqF", TempF(1), IdentF(1), 1),
     Unary("ReadI", IdentI(1)),
     Unary("ReadF", IdentF(1)),
     Unary("WriteI", IdentI(1)),
     Unary("WriteF", IdentF(2)),
     Unary("WriteS", IdentS(1)),
     Label(1), Label(2),
     Jump(1), Jump(2)}
    \cup {Rel(op, IdentI(1), TempI(1), 1) : op \in RelI}
    \cup {Rel(op, IdentF(1), TempF(1), 1) : op \in RelF}
    \cup {Store("StoreI", l, r) : l \in {TempI(1), IdentI(1)},
                                  r \in {TempI(1), IdentI(2), Lit("I")}}
    \cup {Store("StoreF", l, r) : l \in {TempF(1), IdentF(1)},
                                  r \in {TempF(1), IdentF(1), Lit("F")}}

\* The streams handed to the code generator as a whole.
TinyStreams ==
    {<<>>,
     <<Unary("WriteI", IdentI(1))>>,
     <<Arith("AddI", IdentI(1), IdentI(2), TempI(1)),
       Arith("AddI", TempI(1), IdentI(1), TempI(2))>>}

\* The temporaries an instruction names.
TempsOf(t) == {o \in {t.lhs, t.rhs, t.temp_result} : o.k = "temp"}

\* The statics as the state the operators thread through.
RegState ==
    [counter |-> REGISTER_COUNTER,
     int_map |-> INT_REGISTER_MAP,
     float_map |-> FLOAT_REGISTER_MAP,
     panic |-> "none"]

Snapshot(st) == [counter |-> st.counter, int_map |-> st.int_map, float_map |-> st.float_map]

\* The registers the calls of Register::new returned while the counter
\* went from `from` to `to`: the calls that passed the assert!.
handed_out(from, to) ==
    [i \in 1..((IF to < RegisterLimit THEN to ELSE RegisterLimit) - from) |-> from + i - 1]

\* The temporaries an instruction reads and the temporary it defines.
ReadTemps(t) ==
    {o \in (IF t.op \in {"StoreI", "StoreF"} THEN {t.rhs} ELSE {t.lhs, t.rhs}) : o.k = "temp"}

DefinedTemps(t) ==
    {o \in (IF t.op \in {"StoreI", "StoreF"} THEN {t.lhs} ELSE {t.temp_result}) : o.k = "temp"}

\* One target instruction on the registers: pairs <<register, temporary>>
\* for the registers that hold the value of a temporary.  A move and the
\* arithmetic instructions write their second operand; a move from a
\* register copies what the register holds.
tiny_step(holds, code) ==
    IF code.dst.k = "reg" /\ code.op \in ArithI \cup ArithF \cup {"Move"}
    THEN {p \in holds : p[1] # code.dst.n}
            \cup (IF code.op = "Move" /\ code.src.k = "reg"
                  THEN {<<code.dst.n, p[2]>> : p \in {q \in holds : q[1] = code.src.n}}
                  ELSE {})
    ELSE holds

RECURSIVE tiny_run(_, _, _)
tiny_run(holds, seq, i) ==
    IF i > Len(seq) THEN holds ELSE tiny_run(tiny_step(holds, seq[i]), seq, i + 1)

\* The registers after the target instructions of t have run: the value of
\* the temporary t defines is in the register the last of them wrote.
holds_after(holds, t, seq) ==
    LET h == tiny_run(holds, seq, 1)
        r == seq[Len(seq)].dst.n
    IN  IF DefinedTemps(t) = {} THEN h
        ELSE {p \in h : p[1] # r /\ p[2] \notin DefinedTemps(t)}
                \cup {<<r, d>> : d \in DefinedTemps(t)}

\* The record of the values after t was lowered to seq from the statics st:
\* `stale` are the temporaries t reads, defined earlier in the function,
\* whose register (the one the map binds them to) does not hold them.
values_after(v, st, t, seq) ==
    [holds |-> holds_after(v.holds, t, seq),
     defined |-> v.defined \cup DefinedTemps(t),
     well_formed |-> v.well_formed /\ ReadTemps(t) \subseteq v.defined,
     stale |-> {x \in ReadTemps(t) \cap v.defined :
                    <<get(register_map(st, x.ty), x.n), x>> \notin v.holds}]

\* The statics after a call that left them as st.
SetStatics(st) ==
    /\ REGISTER_COUNTER' = st.counter
    /\ INT_REGISTER_MAP' = st.int_map
    /\ FLOAT_REGISTER_MAP' = st.float_map
    /\ allocated' = allocated \o handed_out(REGISTER_COUNTER, st.counter)

InitTiny ==
    /\ tac = <<>>
    /\ globals = {}
    /\ pc = "tac"
    /\ panic = "none"
    /\ bb_function = NoBBFunction
    /\ cfg = NoGraph
    /\ lcfg = NoGraph
    /\ runs = 0
    /\ passes = NoPasses
    /\ TinyInit

\* TempI::new / TempF::new, while the TAC of the function is built
NewTemp ==
    /\ tiny_pc = "function"
    /\ TEMP_COUNTER <= MaxTemp
    /\ \E ty \in {"I", "F"} :
            temps' = temps \cup {[k |-> "temp", ty |-> ty, n |-> TEMP_COUNTER]}
    /\ TEMP_COUNTER' = TEMP_COUNTER + 1
    /\ UNCHANGED <<REGISTER_COUNTER, INT_REGISTER_MAP, FLOAT_REGISTER_MAP, function,
                   tiny_pc, lowered, arg, sequence, entry, allocated, values, panic,
                   pipeline_vars, compilations>>

\* Into::<TinyCodeSequence>::into(three_addr_code), returning
LowerInstruction ==
    /\ tiny_pc # "abort"
    /\ lowered < MaxLowered
    /\ \E t \in TinyUniverse :
            /\ TempsOf(t) \subseteq temps
            /\ LET r == TinyCodeSequenceFrom(RegState, t)
               IN  /\ r.st.panic = "none"
                   /\ SetStatics(r.st)
                   /\ sequence' = r.sequence
                   /\ values' = values_after(values, RegState, t, r.sequence)
            /\ arg' = <<t>>
    /\ entry' = Snapshot(RegState)
    /\ tiny_pc' = "lowered"
    /\ lowered' = lowered + 1
    /\ UNCHANGED <<TEMP_COUNTER, temps, function, panic, pipeline_vars, compilations>>

\* Into::<TinyCodeSequence>::into(three_addr_code), panicking
LowerInstructionPanics ==
    /\ tiny_pc # "abort"
    /\ lowered < MaxLowered
    /\ \E t \in TinyUniverse :
            /\ TempsOf(t) \subseteq temps
            /\ LET r == TinyCodeSequenceFrom(RegState, t)
               IN  /\ r.st.panic # "none"
                   /\ SetStatics(r.st)
                   /\ panic' = r.st.panic
            /\ arg' = <<t>>
    /\ sequence' = <<>>
    /\ values' = [values EXCEPT !.stale = {}]
    /\ entry' = Snapshot(RegState)
    /\ tiny_pc' = "abort"
    /\ lowered' = lowered + 1
    /\ UNCHANGED <<TEMP_COUNTER, temps, function, pipeline_vars, compilations>>

\* Into::<TinyCodeSequence>::into(three_adr_code_seq)
LowerFunction ==
    /\ tiny_pc # "abort"
    /\ lowered < MaxLowered
    /\ \E code \in TinyStreams :
            /\ \A i \in 1..Len(code) : TempsOf(code[i]) \subseteq temps
            /\ LET r == TinyCodeSequenceFromVec(RegState, code)
               IN  /\ SetStatics(r.st)
                   /\ sequence' = r.sequence
            /\ arg' = code
    /\ values' = [values EXCEPT !.stale = {}]
    /\ entry' = Snapshot(RegState)
    /\ tiny_pc' = "vec"
    /\ lowered' = lowered + 1
    /\ UNCHANGED <<TEMP_COUNTER, temps, function, panic, pipeline_vars, compilations>>

\* The beginning of code generation for the next function:
\* reset_temp_counter() is all that is reset.
StartFunction ==
    /\ tiny_pc \in {"lowered", "vec"}
    /\ function < MaxFunctions
    /\ function' = function + 1
    /\ TEMP_COUNTER' = 1
    /\ temps' = {}
    /\ values' = NoValues
    /\ tiny_pc' = "function"
    /\ arg' = <<>>
    /\ sequence' = <<>>
    /\ entry' = Snapshot(RegState)
    /\ UNCHANGED <<REGISTER_COUNTER, INT_REGISTER_MAP, FLOAT_REGISTER_MAP, lowered,
                   allocated, panic, pipeline_vars, compilations>>

NextTiny ==
    \/ NewTemp
    \/ LowerInstruction
    \/ LowerInstructionPanics
    \/ LowerFunction
    \/ StartFunction

SpecTiny == InitTiny /\ [][NextTiny]_vars

(***************************************************************************)
(* Fourth specification: Register::new called over and over, up to and     *)
(* beyond the register limit.                                              *)
(***************************************************************************)
\* Register::new(), returning
RegisterNew ==
    /\ LET r == Register_new(RegState)
       IN  /\ r.st.panic = "none"
           /\ SetStatics(r.st)
    /\ tiny_pc' = "register"
    /\ UNCHANGED <<TEMP_COUNTER, temps, function, lowered, arg, sequence, entry,
                   values, panic, pipeline_vars, compilations>>

\* Register::new(), panicking in the assert!; the counter has moved on
RegisterNewPanics ==
    /\ REGISTER_COUNTER < RegisterLimit + MaxAborts
    /\ LET r == Register_new(RegState)
       IN  /\ r.st.panic # "none"
           /\ SetStatics(r.st)
           /\ panic' = r.st.panic
    /\ tiny_pc' = "abort"
    /\ UNCHANGED <<TEMP_COUNTER, temps, function, lowered, arg, sequence, entry,
                   values, pipeline_vars, compilations>>

NextRegister ==
    \/ RegisterNew
    \/ RegisterNewPanics

SpecRegister == InitTiny /\ [][NextRegister]_vars

(***************************************************************************)
(* Vocabulary of the properties.                                           *)
(***************************************************************************)
\* The instruction sequences of the blocks, one after the other.
RECURSIVE ConcatBlocks(_, _)
ConcatBlocks(bbs, i) ==
    IF i > Len(bbs) THEN <<>> ELSE bbs[i].seq \o ConcatBlocks(bbs, i + 1)

Range(s) == {s[i] : i \in 1..Len(s)}

LastTac(bb) == bb.seq[Len(bb.seq)]

BlocksBuilt == pc # "tac"

GraphBuilt == pc \in {"cfg", "decorated", "updated"}

\* The successor list of the block at position i of the graph.
Successors(i) == Get(cfg.bb_map, cfg.bbs[i].label)

\* The block label the label-to-block map assigns to the target of the
\* final instruction of the block at position i.
TargetBlock(i) == bb_function.tac_label_to_bb_label_map[LastTac(cfg.bbs[i]).label]

HasTargetLabel(t) == t.op \in RelI \cup RelF \cup {"Jump"}

(***************************************************************************)
(* The expectations of the two tests of the graph constructor.             *)
(***************************************************************************)
\* test::bb_function_to_cfg: the four blocks and their edges.
TestIfElseCfg ==
    (tac = IfElseProgram /\ GraphBuilt) =>
        /\ [i \in 1..Len(cfg.bbs) |-> Len(cfg.bbs[i].seq)] = <<10, 3, 4, 2>>
        /\ cfg.bb_map = <<[key |-> 0, val |-> <<2, 1>>],
                          [key |-> 1, val |-> <<3>>],
                          [key |-> 2, val |-> <<3>>]>>

\* test::bb_function_with_loops_to_cfg: the five blocks, the label map and
\* the edges.
TestLoopCfg ==
    (tac = LoopProgram /\ GraphBuilt) =>
        /\ [i \in 1..Len(cfg.bbs) |-> Len(cfg.bbs[i].seq)] = <<9, 3, 6, 5, 2>>
        /\ bb_function.tac_label_to_bb_label_map = (11 :> 1) @@ (12 :> 4) @@ (13 :> 3)
        /\ cfg.bb_map = <<[key |-> 0, val |-> <<1>>],
                          [key |-> 1, val |-> <<4, 2>>],
                          [key |-> 2, val |-> <<3>>],
                          [key |-> 3, val |-> <<1>>]>>

(***************************************************************************)
(* Properties of the basic block builder and the graph constructor.        *)
(***************************************************************************)
\* C1: concatenating the instruction sequences of the produced blocks in
\* block order yields exactly the TAC stream the builder was given.
C1_ConcatReproducesStream ==
    BlocksBuilt => ConcatBlocks(bb_function.bbs, 1) = tac

\* A stream that was cut into several blocks, at a Label and after a
\* terminator.
C1_Witness ==
    /\ pc = "bb_function"
    /\ Len(bb_function.bbs) >= 3
    /\ \E i \in 2..Len(bb_function.bbs) : bb_function.bbs[i].seq[1].op = "Label"
    /\ \E i \in 2..Len(bb_function.bbs) : bb_function.bbs[i].seq[1].op # "Label"

\* C2: every block the builder produces holds at least one instruction, so
\* neither the graph constructor nor the liveness analyzer ever fails on
\* the first or last instruction of a block.
C2_BlocksNeverEmpty ==
    /\ BlocksBuilt => \A i \in 1..Len(bb_function.bbs) : Len(bb_function.bbs[i].seq) >= 1
    /\ panic # "empty_block"
    /\ \A i \in 1..Len(lcfg.bbs) : Len(lcfg.bbs[i].seq) >= 1

\* A Label directly after a jump and a stream that ends in a terminator:
\* the places where a block boundary is met twice in a row; the analyzer
\* has taken the first instruction of every block.
C2_Witness ==
    /\ pc = "updated"
    /\ \E i \in 1..(Len(tac) - 1) : tac[i].op = "Jump" /\ tac[i + 1].op = "Label"
    /\ is_bb_terminator(tac[Len(tac)])

\* C3: for consecutive blocks P, C in program order, if the final
\* instruction of P is not an unconditional jump, then the successor list
\* of P contains C.
C3_FallThroughEdge ==
    GraphBuilt =>
        \A i \in 1..(Len(cfg.bbs) - 1) :
            LastTac(cfg.bbs[i]).op # "Jump" => cfg.bbs[i + 1].label \in Range(Successors(i))

\* A block that ends in a plain instruction and a block that ends in a
\* conditional branch, each followed by another block.
C3_Witness ==
    /\ pc = "cfg"
    /\ \E i \in 1..(Len(cfg.bbs) - 1) : ~is_bb_terminator(LastTac(cfg.bbs[i]))
    /\ \E i \in 1..(Len(cfg.bbs) - 1) : LastTac(cfg.bbs[i]).op \in RelI

\* C4: a block whose final instruction is a conditional branch or a jump
\* to label L has the block that the label map assigns to L among its
\* successors; a block whose final instruction carries no target label has
\* no edge but the fall-through edge to the next block.
C4_TargetEdge ==
    GraphBuilt =>
        \A i \in 1..Len(cfg.bbs) :
            IF HasTargetLabel(LastTac(cfg.bbs[i]))
            THEN TargetBlock(i) \in Range(Successors(i))
            ELSE Successors(i) =
                    IF i < Len(cfg.bbs) THEN <<cfg.bbs[i + 1].label>> ELSE <<>>

\* A graph with a branch to a later block, a jump to an earlier block and
\* a block without target label.
C4_Witness ==
    /\ pc = "cfg"
    /\ \E i \in 1..Len(cfg.bbs) :
            LastTac(cfg.bbs[i]).op \in RelI /\ TargetBlock(i) > cfg.bbs[i].label
    /\ \E i \in 1..Len(cfg.bbs) :
            LastTac(cfg.bbs[i]).op = "Jump" /\ TargetBlock(i) < cfg.bbs[i].label
    /\ \E i \in 1..Len(cfg.bbs) : ~HasTargetLabel(LastTac(cfg.bbs[i]))

C7_NoDanglingEdges ==
    GraphBuilt =>
        \A e \in Range(cfg.bb_map) :
            /\ e.key \in {cfg.bbs[i].label : i \in 1..Len(cfg.bbs)}
            /\ Range(e.val) \subseteq {cfg.bbs[i].label : i \in 1..Len(cfg.bbs)}

\* A graph whose last block has an incoming fall-through edge and whose
\* edges include a taken edge.
C7_Witness ==
    /\ pc = "cfg"
    /\ Len(cfg.bbs) >= 2
    /\ cfg.bbs[Len(cfg.bbs)].label \in Range(Get(cfg.bb_map, cfg.bbs[Len(cfg.bbs) - 1].label))
    /\ \E i \in 1..Len(cfg.bbs) : HasTargetLabel(LastTac(cfg.bbs[i]))

(***************************************************************************)
(* Properties of the liveness analysis.                                    *)
(***************************************************************************)
\* The decorated instructions of the graph.
DecoratedNodes ==
    UNION {Range(lcfg.bbs[b].seq) : b \in 1..Len(lcfg.bbs)}

Decorated == pc \in {"decorated", "updated"}

\* C8: after update_in_and_out_sets every instruction satisfies
\* IN = (OUT minus KILL) union GEN; in particular an instruction with a
\* non-empty GEN set has a non-empty IN set.
C8_DataflowEquation ==
    pc = "updated" =>
        \A d \in DecoratedNodes :
            /\ d.in_set = (d.out_set \ d.kill_set) \cup d.gen_set
            /\ d.gen_set # {} => d.in_set # {}

\* Positions <<b, j>> of the instructions of the decorated graph.
BlockPosition(label) == CHOOSE b \in 1..Len(lcfg.bbs) : lcfg.bbs[b].label = label

NodeAt(n) == lcfg.bbs[n[1]].seq[n[2]]

\* The control-flow successors of the instruction at position n: the next
\* instruction of its block, or the first instructions of the successor
\* blocks.
NodeSuccessors(n) ==
    IF n[2] < Len(lcfg.bbs[n[1]].seq)
    THEN {<<n[1], n[2] + 1>>}
    ELSE {<<BlockPosition(l), 1>> : l \in Range(Get(lcfg.bb_map, lcfg.bbs[n[1]].label))}

\* The positions within blocks lo..hi reached from the positions in
\* `frontier` along paths on which no instruction redefines v.
RECURSIVE ReachedUnkilled(_, _, _, _, _)
ReachedUnkilled(v, lo, hi, reached, frontier) ==
    IF frontier = {} THEN reached
    ELSE LET next == UNION {NodeSuccessors(n) : n \in {x \in frontier : v \notin NodeAt(x).kill_set}}
             new == {m \in next : m[1] \in lo..hi} \ (reached \cup frontier)
         IN  ReachedUnkilled(v, lo, hi, reached \cup frontier, new)

\* v is read in the loop of blocks h..b without being redefined earlier on
\* the path from the first instruction of the header h.
ReadInLoopBeforeRedefined(v, h, b) ==
    \E n \in ReachedUnkilled(v, h, b, {}, {<<h, 1>>}) : v \in NodeAt(n).gen_set

\* Block b jumps or falls back to block h, which is not after it.
BackEdge(h, b) ==
    /\ h <= b
    /\ lcfg.bbs[h].label \in Range(Get(lcfg.bb_map, lcfg.bbs[b].label))

\* C9: for a graph with a back-edge, after the analysis the IN set of the
\* first instruction of the loop header contains every variable that is
\* read in the loop without being redefined earlier on the path from the
\* header.
C9_LoopCarriedLiveness ==
    pc = "updated" =>
        \A h, b \in 1..Len(lcfg.bbs) :
            BackEdge(h, b) =>
                \A v \in UNION {d.gen_set : d \in DecoratedNodes} :
                    ReadInLoopBeforeRedefined(v, h, b) => v \in lcfg.bbs[h].seq[1].in_set

\* C10: for every binary instruction GEN is exactly the set of its source
\* operands that are LValues (temporaries or identifiers, not literals);
\* KILL is exactly the destination temporary for the arithmetic
\* instructions and empty for the relational ones.
C10_BinaryGenKill ==
    Decorated =>
        \A d \in DecoratedNodes :
            d.tac.op \in ArithI \cup ArithF \cup RelI \cup RelF =>
                /\ d.gen_set = {o \in {d.tac.lhs, d.tac.rhs} : o.k \in {"temp", "id"}}
                /\ d.kill_set = IF d.tac.op \in ArithI \cup ArithF
                                THEN {d.tac.temp_result}
                                ELSE {}

\* Decorated: an arithmetic instruction with a literal on the left and an
\* identifier on the right.
C10_Witness ==
    /\ pc = "decorated"
    /\ \E d \in DecoratedNodes :
            /\ d.tac.op \in ArithF
            /\ d.tac.lhs.k = "lit"
            /\ d.tac.rhs.k = "id"
            /\ d.gen_set = {d.tac.rhs}

\* C11: for every Store, KILL is exactly the destination LValue and GEN is
\* the source when the source is an LValue and empty when it is a literal,
\* whatever the destination is: a store whose source is its destination has
\* that LValue in both sets.
C11_StoreGenKill ==
    Decorated =>
        \A d \in DecoratedNodes :
            d.tac.op \in {"StoreI", "StoreF"} =>
                /\ d.kill_set = {d.tac.lhs}
                /\ d.gen_set = IF d.tac.rhs.k \in {"temp", "id"} THEN {d.tac.rhs} ELSE {}
                /\ d.tac.rhs = d.tac.lhs => d.tac.lhs \in d.gen_set \cap d.kill_set

\* Decorated: a store of an identifier into itself, with that identifier in
\* both sets.
C11_Witness ==
    /\ pc = "decorated"
    /\ \E d \in DecoratedNodes :
            /\ d.tac.op = "StoreF"
            /\ d.tac.lhs.k = "id"
            /\ d.tac.rhs = d.tac.lhs
            /\ d.gen_set = {d.tac.lhs}
            /\ d.kill_set = {d.tac.lhs}

\* C12: Read and Pop have KILL = {destination} and empty GEN; Write and
\* Push have GEN = {operand} (Push only for an LValue operand, nothing for
\* a literal) and empty KILL; right after decoration IN and OUT of all four
\* are empty.
C12_SingleOperandGenKill ==
    Decorated =>
        \A d \in DecoratedNodes :
            /\ d.tac.op \in {"ReadI", "ReadF", "PopI", "PopF"} =>
                    d.kill_set = {d.tac.lhs} /\ d.gen_set = {}
            /\ d.tac.op \in {"WriteI", "WriteF"} =>
                    d.gen_set = {d.tac.lhs} /\ d.kill_set = {}
            /\ d.tac.op \in {"PushI", "PushF"} =>
                    /\ d.gen_set = IF d.tac.lhs.k \in {"temp", "id"} THEN {d.tac.lhs} ELSE {}
                    /\ d.kill_set = {}
            /\ (pc = "decorated" /\ d.tac.op \in {"ReadI", "ReadF", "PopI", "PopF",
                                                     "WriteI", "WriteF", "PushI", "PushF"}) =>
                    d.in_set = {} /\ d.out_set = {}

\* Decorated: a Push of a literal, which generates nothing.
C12_Witness ==
    /\ pc = "decorated"
    /\ \E d \in DecoratedNodes :
            /\ d.tac.op = "PushI"
            /\ d.tac.lhs.k = "lit"
            /\ d.gen_set = {}
            /\ d.in_set = {}
            /\ d.out_set = {}

\* The identifier a global symbol of type int or float is referred to by.
GlobalIdent(s) == [k |-> "id", ty |-> s.ty, n |-> s.n]

\* C13 as stated: whatever the global symbol table holds, GEN of a Jsr has
\* an identifier for every symbol the enumeration of the globals returns,
\* and KILL of a Jsr is empty.
C13_JsrGenEverySymbol ==
    Decorated =>
        \A d \in DecoratedNodes :
            d.tac.op = "Jsr" =>
                /\ \A s \in globals : \E v \in d.gen_set : v.n = s.n
                /\ d.kill_set = {}

\* C13 amended: whatever the global symbol table holds, GEN of a Jsr is
\* exactly the identifiers of the int and float globals (a string symbol
\* has none), and KILL of a Jsr is empty.
C13_JsrGenNumericGlobals ==
    Decorated =>
        \A d \in DecoratedNodes :
            d.tac.op = "Jsr" =>
                /\ d.gen_set = {GlobalIdent(s) : s \in {x \in globals : x.ty \in {"I", "F"}}}
                /\ d.kill_set = {}

\* Decorated: a Jsr under a table with an int, a float and a string global;
\* GEN has the two numeric ones.
C13_Witness ==
    /\ pc = "decorated"
    /\ globals = GlobalSymbols
    /\ \E d \in DecoratedNodes :
            /\ d.tac.op = "Jsr"
            /\ Cardinality(d.gen_set) = 2

C15_UpdateIdempotent ==
    [][(pc = "updated" /\ pc' = "updated") => lcfg' = lcfg]_vars

\* update_in_and_out_sets has run twice on a graph where an instruction
\* with a non-empty GEN follows another instruction in its block.
C15_Witness ==
    /\ pc = "updated"
    /\ runs = 2
    /\ \E b \in 1..Len(lcfg.bbs) :
            \E j \in 2..Len(lcfg.bbs[b].seq) : lcfg.bbs[b].seq[j].gen_set # {}

(***************************************************************************)
(* Fifth specification: code generation for two functions, interleaved.    *)
(* Each compilation resets the temporary counter at its beginning, creates *)
(* its temporaries and has an instruction lowered for each of them, which  *)
(* takes a register and binds the temporary; the steps of the two          *)
(* compilations come in any order, on the one set of statics.              *)
(***************************************************************************)
\* reset_temp_counter(), at the beginning of code generation for c
CompilationStart(c) ==
    /\ compilations[c].phase = "idle"
    /\ TEMP_COUNTER' = 1
    /\ compilations' = [compilations EXCEPT ![c].phase = "running"]
    /\ UNCHANGED <<REGISTER_COUNTER, INT_REGISTER_MAP, FLOAT_REGISTER_MAP, temps, function,
                   tiny_pc, lowered, arg, sequence, entry, allocated, values, panic,
                   pipeline_vars>>

\* TempI::new() for c
CompilationNewTemp(c) ==
    /\ compilations[c].phase = "running"
    /\ Len(compilations[c].temps) < MaxWindow
    /\ compilations' = [compilations EXCEPT ![c].temps = Append(@, TEMP_COUNTER)]
    /\ TEMP_COUNTER' = TEMP_COUNTER + 1
    /\ UNCHANGED <<REGISTER_COUNTER, INT_REGISTER_MAP, FLOAT_REGISTER_MAP, temps, function,
                   tiny_pc, lowered, arg, sequence, entry, allocated, values, panic,
                   pipeline_vars>>

\* Into::<TinyCodeSequence>::into(three_addr_code) for c: the instruction
\* that defines the next of its temporaries, `t := literal` or `t := a + b`.
CompilationLower(c) ==
    /\ compilations[c].phase = "running"
    /\ compilations[c].lowered < Len(compilations[c].temps)
    /\ LET n == compilations[c].temps[compilations[c].lowered + 1]
       IN  \E t \in {Store("StoreI", TempI(n), Lit("I")),
                      Arith("AddI", IdentI(1), IdentI(2), TempI(n))} :
                LET r == TinyCodeSequenceFrom(RegState, t)
                    register == r.sequence[Len(r.sequence)].dst.n
                IN  /\ r.st.panic = "none"
                    /\ SetStatics(r.st)
                    /\ compilations' =
                            [compilations EXCEPT
                                ![c].lowered = @ + 1,
                                ![c].registers = @ \o handed_out(REGISTER_COUNTER, r.st.counter),
                                ![c].bindings = @ \cup {<<n, register>>}]
    /\ UNCHANGED <<TEMP_COUNTER, temps, function, tiny_pc, lowered, arg, sequence, entry,
                   values, panic, pipeline_vars>>

\* Code generation for c is over.
CompilationEnd(c) ==
    /\ compilations[c].phase = "running"
    /\ compilations[c].lowered = Len(compilations[c].temps)
    /\ compilations' = [compilations EXCEPT ![c].phase = "done"]
    /\ UNCHANGED <<REGISTER_COUNTER, INT_REGISTER_MAP, FLOAT_REGISTER_MAP, TEMP_COUNTER,
                   temps, function, tiny_pc, lowered, arg, sequence, entry, allocated,
                   values, panic, pipeline_vars>>

NextInterleaved ==
    \/ \E c \in 1..2 : CompilationStart(c)
    \/ \E c \in 1..2 : CompilationNewTemp(c)
    \/ \E c \in 1..2 : CompilationLower(c)
    \/ \E c \in 1..2 : CompilationEnd(c)

SpecInterleaved == InitTiny /\ [][NextInterleaved]_vars

(***************************************************************************)
(* Properties of the code generator.                                       *)
(***************************************************************************)
\* The last conversion lowered one instruction and returned.
LoweredOne == tiny_pc = "lowered"

\* The register map of type ty at the entry of the last conversion, and now.
MapAtEntry(ty) == IF ty = "I" THEN entry.int_map ELSE entry.float_map

MapNow(ty) == IF ty = "I" THEN INT_REGISTER_MAP ELSE FLOAT_REGISTER_MAP

\* The registers bound in either map at the entry of the last conversion.
RegistersAtEntry == {p[2] : p \in entry.int_map \cup entry.float_map}

\* C16: lowering a binary arithmetic instruction whose left operand is a
\* temporary bound to register r takes no register and emits only the
\* arithmetic instruction, with destination r; for an identifier or a
\* literal on the left it takes exactly one fresh register and emits a move
\* of the operand into it, then the arithmetic instruction.  Either way the
\* result temporary is bound to the register of the left operand.
C16_ArithmeticLowering ==
    (LoweredOne /\ arg[1].op \in ArithI \cup ArithF) =>
        LET t == arg[1]
            ty == IF t.op \in ArithI THEN "I" ELSE "F"
            fresh == entry.counter
        IN  /\ t.lhs.k = "temp" =>
                \A p \in MapAtEntry(ty) :
                    p[1] = t.lhs.n =>
                        /\ REGISTER_COUNTER = entry.counter
                        /\ Len(sequence) = 1
                        /\ sequence[1].op = t.op
                        /\ sequence[1].dst = [k |-> "reg", ty |-> "R", n |-> p[2]]
                        /\ <<t.temp_result.n, p[2]>> \in MapNow(ty)
            /\ t.lhs.k \in {"id", "lit"} =>
                /\ REGISTER_COUNTER = entry.counter + 1
                /\ fresh \notin RegistersAtEntry
                /\ Len(sequence) = 2
                /\ sequence[1].op = "Move"
                /\ sequence[1].src = t.lhs
                /\ sequence[1].dst = [k |-> "reg", ty |-> "R", n |-> fresh]
                /\ sequence[2].op = t.op
                /\ sequence[2].dst = [k |-> "reg", ty |-> "R", n |-> fresh]
                /\ <<t.temp_result.n, fresh>> \in MapNow(ty)
            /\ \A p, q \in MapNow(ty) : p[1] = q[1] => p = q

\* t1 := a + b; t2 := t1 + a has been lowered: one register in all, and the
\* second instruction came out as one add into the register of t1.
C16_Witness ==
    /\ LoweredOne
    /\ lowered = 2
    /\ arg[1].op = "AddI"
    /\ arg[1].lhs = TempI(1)
    /\ arg[1].temp_result = TempI(2)
    /\ REGISTER_COUNTER = 1
    /\ allocated = <<0>>
    /\ Len(sequence) = 1
    /\ INT_REGISTER_MAP = {<<1, 0>>, <<2, 0>>}

\* C17: no Move that is emitted has a memory identifier as both source and
\* destination.  A Store of an identifier into an identifier emits exactly
\* two moves, the source into a freshly allocated register, then that
\* register into the destination; every other Store emits exactly one move.
C17_NoMemoryToMemoryMove ==
    LoweredOne =>
        /\ \A i \in 1..Len(sequence) :
                sequence[i].op = "Move" =>
                    ~(sequence[i].src.k = "id" /\ sequence[i].dst.k = "id")
        /\ arg[1].op \in {"StoreI", "StoreF"} =>
                IF arg[1].lhs.k = "id" /\ arg[1].rhs.k = "id"
                THEN /\ Len(sequence) = 2
                     /\ REGISTER_COUNTER = entry.counter + 1
                     /\ entry.counter \notin RegistersAtEntry
                     /\ sequence[1] = [op |-> "Move", src |-> arg[1].rhs,
                                       dst |-> [k |-> "reg", ty |-> "R", n |-> entry.counter],
                                       label |-> 0]
                     /\ sequence[2] = [op |-> "Move",
                                       src |-> [k |-> "reg", ty |-> "R", n |-> entry.counter],
                                       dst |-> arg[1].lhs,
                                       label |-> 0]
                ELSE /\ Len(sequence) = 1
                     /\ sequence[1].op = "Move"

\* A store of an identifier into an identifier has been lowered while a
\* register was already taken.
C17_Witness ==
    /\ LoweredOne
    /\ arg[1].op = "StoreI"
    /\ arg[1].lhs.k = "id"
    /\ arg[1].rhs.k = "id"
    /\ entry.counter = 1
    /\ Len(sequence) = 2

\* C18: the n-th call of Register::new returns register n - 1 for
\* n <= 200, so the registers handed out are distinct, increasing and
\* within 0..199; the 201st call and every later one aborts and returns no
\* register.  (REGISTER_COUNTER counts the calls made.)
C18_RegisterAllocation ==
    /\ \A n \in 1..Len(allocated) : n <= 200 /\ allocated[n] = n - 1
    /\ \A m, n \in 1..Len(allocated) : m < n => allocated[m] < allocated[n]
    /\ REGISTER_COUNTER <= 200 => (Len(allocated) = REGISTER_COUNTER /\ tiny_pc # "abort")
    /\ REGISTER_COUNTER > 200 => (Len(allocated) = 200 /\ tiny_pc = "abort")

\* The 202nd call has aborted after 200 registers were handed out.
C18_Witness ==
    /\ REGISTER_COUNTER = 202
    /\ tiny_pc = "abort"
    /\ Len(allocated) = 200
    /\ allocated[200] = 199

\* C19: at the start of code generation for each function the register
\* counter is back at its initial value and both temp-to-register maps are
\* empty, so that no temporary of the function resolves to a register bound
\* while an earlier function was generated.
C19_ResetPerFunction ==
    tiny_pc = "function" =>
        /\ REGISTER_COUNTER = 0
        /\ INT_REGISTER_MAP = {}
        /\ FLOAT_REGISTER_MAP = {}

\* The instructions of `code` lowered one after the other from the statics
\* st on, their target instructions one after the other.
RECURSIVE ConcatLowerings(_, _, _)
ConcatLowerings(st, code, i) ==
    IF i > Len(code) THEN <<>>
    ELSE LET r == TinyCodeSequenceFrom(st, code[i])
         IN  r.sequence \o ConcatLowerings(r.st, code, i + 1)

\* C20: the sequence the conversion of a stream returns is the
\* concatenation, in stream order, of the target instructions each of its
\* instructions lowers to.
C20_StreamLowering ==
    tiny_pc = "vec" =>
        sequence = ConcatLowerings([counter |-> entry.counter, int_map |-> entry.int_map,
                                    float_map |-> entry.float_map, panic |-> "none"],
                                   arg, 1)

(***************************************************************************)
(* Further properties of the graph and of the analysis.                    *)
(***************************************************************************)
\* C21: a block whose last instruction is Ret has no outgoing edge, also
\* when another block follows it in program order.
C21_RetBlockHasNoEdges ==
    GraphBuilt =>
        \A i \in 1..Len(cfg.bbs) :
            LastTac(cfg.bbs[i]).op = "Ret" => Successors(i) = <<>>

\* The IN sets of the control-flow successors of the instruction at
\* position n, one union: the next instruction of the block unless the
\* instruction is an unconditional jump, and for the last instruction of a
\* block the first instructions of the block's successors in bb_map.
SuccessorsIn(n) ==
    (IF n[2] < Len(lcfg.bbs[n[1]].seq) /\ NodeAt(n).tac.op # "Jump"
     THEN lcfg.bbs[n[1]].seq[n[2] + 1].in_set
     ELSE {})
    \cup (IF n[2] = Len(lcfg.bbs[n[1]].seq)
          THEN UNION {lcfg.bbs[BlockPosition(l)].seq[1].in_set :
                        l \in Range(Get(lcfg.bb_map, lcfg.bbs[n[1]].label))}
          ELSE {})

\* The positions of the instructions of the decorated graph.
Positions ==
    UNION {{<<b, j>> : j \in 1..Len(lcfg.bbs[b].seq)} : b \in 1..Len(lcfg.bbs)}

C23_UpdateTerminates ==
    pc = "updated" => passes.left /\ passes.count \in 1..MaxPasses

C23_Witness ==
    /\ pc = "updated"
    /\ passes.left
    /\ \E h, b \in 1..Len(lcfg.bbs) : BackEdge(h, b)
    /\ \E b \in 1..Len(lcfg.bbs) : Get(lcfg.bb_map, lcfg.bbs[b].label) = <<>>


\* The position in the stream of the first instruction of the b-th block.
BlockStart(b) == 1 + Len(ConcatBlocks(SubSeq(bb_function.bbs, 1, b - 1), 1))

BranchJumpReturn == RelI \cup RelF \cup {"Jump", "Ret"}

\* C24: in every block of the builder a Label stands only first and a
\* branch, jump or return only last; the instruction directly after a
\* branch, jump or return, a Label directly after a jump included, is the
\* first instruction of a block.
C24_BlockBoundaries ==
    BlocksBuilt =>
        /\ \A b \in 1..Len(bb_function.bbs) :
                \A j \in 1..Len(bb_function.bbs[b].seq) :
                    /\ bb_function.bbs[b].seq[j].op = "Label" => j = 1
                    /\ bb_function.bbs[b].seq[j].op \in BranchJumpReturn
                            => j = Len(bb_function.bbs[b].seq)
        /\ \A i \in 1..(Len(tac) - 1) :
                tac[i].op \in BranchJumpReturn =>
                    \E b \in 2..Len(bb_function.bbs) :
                        /\ BlockStart(b) = i + 1
                        /\ bb_function.bbs[b].seq[1] = tac[i + 1]
                        /\ LastTac(bb_function.bbs[b - 1]) = tac[i]

\* A Label directly after a jump, a plain instruction directly after a
\* conditional branch, and a Label after a plain instruction.
C24_Witness ==
    /\ pc = "bb_function"
    /\ \E i \in 1..(Len(tac) - 1) : tac[i].op = "Jump" /\ tac[i + 1].op = "Label"
    /\ \E i \in 1..(Len(tac) - 1) :
            tac[i].op \in RelI \cup RelF /\ ~(tac[i + 1].op \in BranchJumpReturn \cup {"Label"})
    /\ \E i \in 1..(Len(tac) - 1) :
            ~(tac[i].op \in BranchJumpReturn) /\ tac[i + 1].op = "Label"


\* The position in the graph of the block with the given label.
GraphPosition(label) == CHOOSE b \in 1..Len(cfg.bbs) : cfg.bbs[b].label = label

\* C25: the keys of bb_map, in insertion order, are labels of blocks of the
\* graph in program order, each at most once; a block without successors
\* has no entry.
C25_KeysInProgramOrder ==
    GraphBuilt =>
        /\ \A i \in 1..Len(cfg.bb_map) :
                /\ \E b \in 1..Len(cfg.bbs) : cfg.bbs[b].label = cfg.bb_map[i].key
                /\ cfg.bb_map[i].val # <<>>
        /\ \A i, j \in 1..Len(cfg.bb_map) :
                i < j => GraphPosition(cfg.bb_map[i].key) < GraphPosition(cfg.bb_map[j].key)

\* Several keys, one of them first inserted by a fall-through edge and one
\* by a target edge, and a block that has no entry.
C25_Witness ==
    /\ pc = "cfg"
    /\ Len(cfg.bb_map) >= 2
    /\ \E b \in 1..Len(cfg.bbs) : ~HasKey(cfg.bb_map, cfg.bbs[b].label)
    /\ \E b \in 1..Len(cfg.bbs) :
            HasKey(cfg.bb_map, cfg.bbs[b].label) /\ ~HasTargetLabel(LastTac(cfg.bbs[b]))
    /\ \E b \in 1..Len(cfg.bbs) : LastTac(cfg.bbs[b]).op = "Jump"


\* The last instruction of some block branches or jumps to a label that is
\* not a key of the label-to-block map.
DanglingTarget ==
    \E b \in 1..Len(bb_function.bbs) :
        /\ HasTargetLabel(LastTac(bb_function.bbs[b]))
        /\ LastTac(bb_function.bbs[b]).label \notin DOMAIN bb_function.tac_label_to_bb_label_map

\* C28: when the last instruction of a block branches or jumps to a label
\* the label-to-block map does not hold, the construction of the graph
\* aborts and no graph is produced.
C28_DanglingTargetAborts ==
    (BlocksBuilt /\ DanglingTarget) =>
        /\ pc \in {"bb_function", "abort"}
        /\ cfg = NoGraph
        /\ pc = "abort" => panic = "missing_label"

\* The construction has aborted on a conditional branch to a missing label
\* after edges of earlier blocks had been made.
C28_Witness ==
    /\ pc = "abort"
    /\ panic = "missing_label"
    /\ DanglingTarget
    /\ Len(bb_function.bbs) >= 2
    /\ \E b \in 2..Len(bb_function.bbs) :
            /\ LastTac(bb_function.bbs[b]).op \in RelI \cup RelF
            /\ LastTac(bb_function.bbs[b]).label \notin DOMAIN bb_function.tac_label_to_bb_label_map
            /\ \A a \in 1..(b - 1) :
                    HasTargetLabel(LastTac(bb_function.bbs[a])) =>
                        LastTac(bb_function.bbs[a]).label \in DOMAIN bb_function.tac_label_to_bb_label_map


(***************************************************************************)
(* Further properties of the code generator.                               *)
(***************************************************************************)
\* Opmr::Reg / Opmrl::Reg of register r.
Register(r) == [k |-> "reg", ty |-> "R", n |-> r]

\* C26: a relational instruction is lowered to an optional move, one
\* compare and one conditional jump, in this order.  The move, of the right
\* operand into a fresh register, is there exactly when the right operand
\* is not a temporary bound to a register; the compare takes the left
\* operand (the register of a bound temporary, else the operand itself) and
\* the register of the right operand; the jump is jgt for Gt, jlt for Lt,
\* jge for Gte, jle for Lte, jne for Ne, jeq for Eq, to the label of the
\* instruction.
C26_RelationalLowering ==
    (LoweredOne /\ arg[1].op \in RelI \cup RelF) =>
        LET t == arg[1]
            n == Len(sequence)
            bound == t.rhs.k = "temp" /\ \E p \in MapAtEntry(t.rhs.ty) : p[1] = t.rhs.n
        IN  /\ n = IF bound THEN 2 ELSE 3
            /\ REGISTER_COUNTER = IF bound THEN entry.counter ELSE entry.counter + 1
            /\ ~bound =>
                    sequence[1] = [op |-> "Move", src |-> t.rhs,
                                   dst |-> Register(entry.counter), label |-> 0]
            /\ sequence[n - 1].op = IF t.op \in RelI THEN "CmpI" ELSE "CmpF"
            /\ IF t.lhs.k = "temp"
               THEN \E p \in MapAtEntry(t.lhs.ty) :
                        p[1] = t.lhs.n /\ sequence[n - 1].src = Register(p[2])
               ELSE sequence[n - 1].src = t.lhs
            /\ IF bound
               THEN \E p \in MapAtEntry(t.rhs.ty) :
                        p[1] = t.rhs.n /\ sequence[n - 1].dst = Register(p[2])
               ELSE sequence[n - 1].dst = Register(entry.counter)
            /\ sequence[n].label = t.label
            /\ \/ t.op \in {"GtI", "GtF"} /\ sequence[n].op = "Jgt"
               \/ t.op \in {"LtI", "LtF"} /\ sequence[n].op = "Jlt"
               \/ t.op \in {"GteI", "GteF"} /\ sequence[n].op = "Jge"
               \/ t.op \in {"LteI", "LteF"} /\ sequence[n].op = "Jle"
               \/ t.op \in {"NeI", "NeF"} /\ sequence[n].op = "Jne"
               \/ t.op \in {"EqI", "EqF"} /\ sequence[n].op = "Jeq"
            /\ INT_REGISTER_MAP = entry.int_map
            /\ FLOAT_REGISTER_MAP = entry.float_map

\* t1 > b has been lowered with t1 bound to a register: a move of b into
\* the next register, the compare of the register of t1 with it, and jgt.
C26_Witness ==
    /\ LoweredOne
    /\ arg[1] = Rel("GtI", TempI(1), IdentI(2), 2)
    /\ entry.counter >= 1
    /\ Len(sequence) = 3
    /\ sequence[3] = [op |-> "Jgt", src |-> NoOperand, dst |-> NoOperand, label |-> 2]

\* C30: a Label, Jump, ReadI, ReadF, WriteI, WriteF or WriteS instruction is
\* lowered to exactly one target instruction (label, jmp, sys readi, sys
\* readr, sys writei, sys writer, sys writes) with the same label or
\* identifier, and the register counter and the two temp-to-register maps
\* are left as they were.
C30_OneToOneLowering ==
    (LoweredOne /\ arg[1].op \in {"Label", "Jump", "ReadI", "ReadF", "WriteI", "WriteF", "WriteS"}) =>
        LET t == arg[1]
        IN  /\ Len(sequence) = 1
            /\ sequence[1].op = IF t.op = "Jump" THEN "Jmp" ELSE t.op
            /\ sequence[1].label = t.label
            /\ sequence[1].dst = t.lhs
            /\ sequence[1].src = NoOperand
            /\ REGISTER_COUNTER = entry.counter
            /\ INT_REGISTER_MAP = entry.int_map
            /\ FLOAT_REGISTER_MAP = entry.float_map

\* A string has been written while registers were taken and temporaries
\* bound.
C30_Witness ==
    /\ LoweredOne
    /\ arg[1] = Unary("WriteS", IdentS(1))
    /\ entry.counter >= 1
    /\ entry.int_map # {}
    /\ sequence = <<[op |-> "WriteS", src |-> NoOperand, dst |-> IdentS(1), label |-> 0]>>


\* C27: in a sequence in which every temporary is defined before it is
\* used, whenever a lowered instruction reads the register the map binds
\* to a temporary, that register holds the value of the temporary: no
\* instruction lowered in between has overwritten it.
C27_RegisterHoldsTemporary ==
    (LoweredOne /\ values.well_formed) => values.stale = {}


\* C29: when code generation for two functions is interleaved, each has its
\* own numbering window: the temporaries a compilation receives are
\* numbered 1, 2, ... from its reset on, the registers it receives from
\* Register::new are consecutive, and while it runs the map binds each of its temporaries to
\* the register it bound it to, whatever the other compilation allocates,
\* binds or resets.
C29_OwnNumberingWindow ==
    \A c \in 1..2 :
        /\ \A k \in 1..Len(compilations[c].temps) : compilations[c].temps[k] = k
        /\ \A k \in 2..Len(compilations[c].registers) :
                compilations[c].registers[k] = compilations[c].registers[k - 1] + 1
        /\ compilations[c].phase = "running" => compilations[c].bindings \subseteq INT_REGISTER_MAP

====
